---- MODULE Spec2Model ----
(***************************************************************************)
(* Model of app.py (AI Study Assistant): the PDF -> notes -> summary ->    *)
(* MCQs / plan / outline -> mindmap / flashcards / slides pipeline, its    *)
(* in-memory notes store, and the text-to-artifact renderers.              *)
(*                                                                         *)
(* Text is a sequence of tokens.  A token is either a separator character *)
(* (" ", "\t", "\n", "\r", ":", ",") or a word: a non-empty run of         *)
(* characters none of which is a separator (a single letter in the         *)
(* renderer specifications, a whole word in the pipeline's fixed texts).   *)
(* Every string operation of the source used here (splitlines, strip,      *)
(* split, "in") looks only at separator characters, so it acts on tokens   *)
(* exactly as it acts on characters.                                       *)
(***************************************************************************)
EXTENDS Integers, Sequences, FiniteSets, TLC

VARIABLES
    fn_arg,         \* renderer specifications: the text argument of the call
    fn_ret,         \* renderer specifications: what the call built
    api_key,        \* API_KEY: TRUE iff GROQ_API_KEY was set at import
    notes_memory,   \* notes_memory: student id -> notes text
    files,          \* the working directory: file name -> content
    pc,             \* per invocation of full_pipeline: the next statement
    frame,          \* per invocation: the locals of full_pipeline
    result,         \* per invocation: the tuple handed back to the UI
    calls,          \* per invocation: the requests sent to the provider
    trace,          \* per invocation: the statements executed so far
    put_log         \* the history of writes to notes_memory

vars == <<fn_arg, fn_ret, api_key, notes_memory, files, pc, frame, result,
          calls, trace, put_log>>

pipeVars == <<api_key, notes_memory, files, pc, frame, result, calls, trace,
              put_log>>

----------------------------------------------------------------------------
(* Bounds *)

MaxSlideLen   == 6      \* characters of a summary text, character by character
MaxSlideLines == 14     \* lines of a summary text made of whole lines
MaxOutlineLen == 6      \* characters of an outline text
MaxRuns       == 2      \* runs of full_pipeline served one after another

----------------------------------------------------------------------------
(* str methods *)

Whitespace == {" ", "\t", "\n", "\r"}
LineBreaks == {"\n", "\r"}

Unset == <<"<unset>">>

RECURSIVE LStrip(_)
LStrip(s) ==
    IF s # <<>> /\ Head(s) \in Whitespace THEN LStrip(Tail(s)) ELSE s

RECURSIVE RStrip(_)
RStrip(s) ==
    IF s # <<>> /\ s[Len(s)] \in Whitespace
    THEN RStrip(SubSeq(s, 1, Len(s) - 1))
    ELSE s

\* str.strip()
Strip(s) == RStrip(LStrip(s))

\* index of the first token of s that is in set, 0 if none
RECURSIVE FindFrom(_, _, _)
FindFrom(s, set, k) ==
    IF k > Len(s) THEN 0
    ELSE IF s[k] \in set THEN k
    ELSE FindFrom(s, set, k + 1)

Find(s, set) == FindFrom(s, set, 1)

\* sep in s
Contains(s, sep) == Find(s, {sep}) # 0

\* str.splitlines(): "\r\n" is one boundary, a final boundary opens no line
RECURSIVE SplitLines(_)
SplitLines(s) ==
    IF s = <<>> THEN <<>>
    ELSE LET k == Find(s, LineBreaks) IN
         IF k = 0 THEN <<s>>
         ELSE LET crlf == s[k] = "\r" /\ k < Len(s) /\ s[k + 1] = "\n"
                  rest == SubSeq(s, IF crlf THEN k + 2 ELSE k + 1, Len(s))
              IN  <<SubSeq(s, 1, k - 1)>> \o SplitLines(rest)

\* str.split(sep, 1) on a string that contains sep
SplitOnce(s, sep) ==
    LET k == Find(s, {sep}) IN
    <<SubSeq(s, 1, k - 1), SubSeq(s, k + 1, Len(s))>>

\* str.split(sep)
RECURSIVE Split(_, _)
Split(s, sep) ==
    LET k == Find(s, {sep}) IN
    IF k = 0 THEN <<s>>
    ELSE <<SubSeq(s, 1, k - 1)>> \o Split(SubSeq(s, k + 1, Len(s)), sep)

\* [f(x) for x in seq]
RECURSIVE MapStrip(_)
MapStrip(seq) ==
    IF seq = <<>> THEN <<>> ELSE <<Strip(Head(seq))>> \o MapStrip(Tail(seq))

\* [x for x in seq if x]
RECURSIVE Truthy(_)
Truthy(seq) ==
    IF seq = <<>> THEN <<>>
    ELSE IF Head(seq) # <<>> THEN <<Head(seq)>> \o Truthy(Tail(seq))
    ELSE Truthy(Tail(seq))

----------------------------------------------------------------------------
(* summary_to_pptx *)

BulletsPerSlide == 6

\* variant: blank lines are not filtered out
Bullets_KeepBlank(summary_text) == MapStrip(SplitLines(summary_text))

\* bullets = [l.strip() for l in summary_text.splitlines() if l.strip()]
Bullets(summary_text) == Truthy(MapStrip(SplitLines(summary_text)))

\* one slide: title "Summary", one paragraph added (tf.add_paragraph) per
\* bullet of bullets[i:i + 6]; paras are the paragraphs the loop adds
AddSlide(bullets, i) ==
    [title  |-> "Summary",
     paras  |-> SubSeq(bullets, i + 1,
                       IF i + BulletsPerSlide < Len(bullets)
                       THEN i + BulletsPerSlide ELSE Len(bullets))]

\* for i in range(0, len(bullets), 6): prs.slides.add_slide(...)
RECURSIVE SlidesFrom(_, _)
SlidesFrom(bullets, i) ==
    IF i >= Len(bullets) THEN <<>>
    ELSE <<AddSlide(bullets, i)>> \o SlidesFrom(bullets, i + BulletsPerSlide)

\* the deck that prs.save(filename) writes
summary_to_pptx(summary_text) == SlidesFrom(Bullets(summary_text), 0)

----------------------------------------------------------------------------
(* draw_mindmap_from_outline *)

root == <<"Central", " ", "Topic">>

\* nx.Graph(): nodes are identified by label, an edge is an unordered pair
\* (a single label for a self-loop), adding an edge twice adds it once
EmptyGraph == [nodes |-> {}, edges |-> {}]

AddNode(G, n) == [G EXCEPT !.nodes = @ \cup {n}]

AddEdge(G, u, v) == [nodes |-> G.nodes \cup {u, v}, edges |-> G.edges \cup {{u, v}}]

\* for s in subs: G.add_edge(parent, s)
RECURSIVE AddChildren(_, _, _)
AddChildren(G, parent, subs) ==
    IF subs = <<>> THEN G
    ELSE AddChildren(AddEdge(G, parent, Head(subs)), parent, Tail(subs))

\* variant: the parent is attached to the root once per child
MindmapLine_RootPerChild(G, rawline) ==
    LET line == Strip(rawline) IN
    IF Contains(line, ":")
    THEN LET parts  == SplitOnce(line, ":")
             parent == Strip(parts[1])
             subs   == Truthy(MapStrip(Split(parts[2], ",")))
         IN  IF subs = <<>> THEN G
             ELSE AddEdge(AddChildren(G, parent, subs), root, parent)
    ELSE AddEdge(G, root, line)

\* variant: the line is not trimmed
MindmapLine_NoStrip(G, rawline) ==
    LET line == rawline IN
    IF Contains(line, ":")
    THEN LET parts  == SplitOnce(line, ":")
             parent == Strip(parts[1])
             subs   == Truthy(MapStrip(Split(parts[2], ",")))
         IN  AddEdge(AddChildren(G, parent, subs), root, parent)
    ELSE AddEdge(G, root, line)

\* the body of the loop over the lines of the outline
MindmapLine(G, rawline) ==
    LET line == Strip(rawline) IN
    IF Contains(line, ":")
    THEN LET parts  == SplitOnce(line, ":")
             parent == Strip(parts[1])
             subs   == Truthy(MapStrip(Split(parts[2], ",")))
         IN  AddEdge(AddChildren(G, parent, subs), root, parent)
    ELSE AddEdge(G, root, line)

RECURSIVE MindmapLines(_, _)
MindmapLines(G, lines) ==
    IF lines = <<>> THEN G
    ELSE MindmapLines(MindmapLine(G, Head(lines)), Tail(lines))

\* the graph G that is drawn and saved
draw_mindmap_from_outline(outline_text) ==
    MindmapLines(AddNode(EmptyGraph, root), SplitLines(outline_text))

----------------------------------------------------------------------------
(* create_flashcards_pdf *)

\* one multi_cell block per line of mcq_text.splitlines(), blank lines kept
create_flashcards_pdf(mcq_text) == SplitLines(mcq_text)

----------------------------------------------------------------------------
(* Calls: a call either returns a value or raises *)

Returned(v) == [raised |-> FALSE, value |-> v]
Raised(msg) == [raised |-> TRUE, value |-> msg]

----------------------------------------------------------------------------
(* extract_text_from_pdf *)

\* The objects the UI can hand to full_pipeline: two readable PDFs (a page
\* without text has the empty text), a corrupt PDF, and None (no upload).
Doc1       == [kind |-> "pdf", pages |-> << <<"x", "\n">>, <<>>, <<"y", " ">> >>]
Doc2       == [kind |-> "pdf", pages |-> << <<" ", "z">> >>]
DocCorrupt == [kind |-> "corrupt", pages |-> <<>>]
DocNone    == [kind |-> "none", pages |-> <<>>]

Documents == {Doc1, Doc2, DocCorrupt, DocNone}

\* str(e) of what PdfReader(file_obj) raises on an object it cannot read
ReaderMessage(file_obj) ==
    IF file_obj.kind = "none"
    THEN <<"'NoneType'", " ", "object", " ", "has", " ", "no", " ",
           "attribute", " ", "'seek'">>
    ELSE <<"EOF", " ", "marker", " ", "not", " ", "found">>

\* for page in reader.pages: if page_text: text += page_text + "\n"
RECURSIVE PagesText(_)
PagesText(pages) ==
    IF pages = <<>> THEN <<>>
    ELSE (IF Head(pages) # <<>> THEN Head(pages) \o <<"\n">> ELSE <<>>)
         \o PagesText(Tail(pages))

\* the body of the try block
ReadPdf(file_obj) ==
    IF file_obj.kind # "pdf" THEN Raised(ReaderMessage(file_obj))
    ELSE Returned(Strip(PagesText(file_obj.pages)))

ExtractError(msg) == <<"Error", " ", "extracting", " ", "PDF", ":", " ">> \o msg

\* variant: no except clause
extract_text_from_pdf_NoExcept(file_obj) == ReadPdf(file_obj)

\* try: ... except Exception as e: return f"Error extracting PDF: {str(e)}"
extract_text_from_pdf(file_obj) ==
    LET r == ReadPdf(file_obj) IN
    IF r.raised THEN Returned(ExtractError(r.value)) ELSE r

----------------------------------------------------------------------------
(* groq_chat *)

KeyNotSet == <<"GROQ_API_KEY", " ", "not", " ", "set!">>

LLMError(msg) == <<"LLM", " ", "Error", ":", " ">> \o msg

\* str(e) of what requests.post / raise_for_status / resp.json()[...] raise
ProviderErrors ==
    { <<"404", " ", "Client", " ", "Error", ":", " ", "Not", " ", "Found", " ",
        "for", " ", "url", ":", " ", "https", ":",
        "//api.groq.com/v1/chat/completions">> }

\* texts the provider may generate, by the kind of request
Generated(kind) ==
    CASE kind = "summary" -> { <<"-", " ", "s1", "\n", "\n", "-", " ", "s2">>,
                               <<"t1">> }
      [] kind = "mcqs"    -> { <<"Q1", "\n", "\n", "A", ")", " ", "a1">>,
                               <<"Q2">> }
      [] kind = "plan"    -> { <<"Day", " ", "1", ":", " ", "read">> }
      [] kind = "outline" -> { <<"Math", ":", " ", "Algebra", ",", " ",
                                 "Geometry", "\n", "History">>,
                               <<"Art">> }

\* what the provider does with one request: generate a text or fail
ProviderOutcomes(kind) ==
    {[ok |-> TRUE, text |-> t] : t \in Generated(kind)}
    \cup {[ok |-> FALSE, text |-> m] : m \in ProviderErrors}

\* the body of the try block
Post(outcome) ==
    IF outcome.ok THEN Returned(outcome.text) ELSE Raised(outcome.text)

\* variant: no except clause
groq_chat_NoExcept(key, system_prompt, user_prompt, outcome) ==
    IF ~key THEN Returned(KeyNotSet) ELSE Post(outcome)

groq_chat(key, system_prompt, user_prompt, outcome) ==
    IF ~key THEN Returned(KeyNotSet)
    ELSE LET r == Post(outcome) IN
         IF r.raised THEN Returned(LLMError(r.value)) ELSE r

----------------------------------------------------------------------------
(* Core functions: the prompts *)

McqCount == 5
PlanDays == 7

summarize_text(text) ==
    [system |-> "Summarize concisely with bullets.",
     user   |-> <<"Summarize", ":", "\n">> \o text]

generate_mcqs(text) ==
    [system |-> "Create MCQs.",
     user   |-> <<"Generate", " ", ToString(McqCount), " ", "MCQs", " ",
                  "with", " ", "answers", ":", "\n">> \o text]

generate_study_plan(summary) ==
    [system |-> "Create a study plan.",
     user   |-> <<"Create", " ", ToString(PlanDays), "-day", " ", "plan",
                  ":", "\n">> \o summary]

generate_mindmap_outline(text) ==
    [system |-> "Create hierarchical outline.",
     user   |-> <<"Outline", ":", "\n">> \o text]

----------------------------------------------------------------------------
(* full_pipeline *)

Procs == {1, 2}         \* the invocations of full_pipeline that may overlap

Students == {"default", "s2"}

\* variant: the notes are stored after the summary call
Statements_PutAfterSummary ==
    <<"extract", "summary", "put", "mcqs", "plan", "outline",
      "mindmap", "flash", "pptx", "return">>

\* the statements of full_pipeline, in program order
Statements == <<"extract", "put", "summary", "mcqs", "plan", "outline",
                "mindmap", "flash", "pptx", "return">>

After(stmt) ==
    LET k == CHOOSE n \in 1..Len(Statements) : Statements[n] = stmt IN
    IF k < Len(Statements) THEN Statements[k + 1] ELSE "done"

NoFrame ==
    [pdf_file |-> DocNone, student_id |-> "", notes |-> Unset,
     summary |-> Unset, mcqs |-> Unset, plan |-> Unset, outline |-> Unset,
     mindmap_img |-> "", flash_pdf |-> "", pptx_file |-> ""]

\* variant: the questions are requested from the notes
Request_McqsFromNotes(kind, f) ==
    CASE kind = "summary" -> summarize_text(f.notes)
      [] kind = "mcqs"    -> generate_mcqs(f.notes)
      [] kind = "plan"    -> generate_study_plan(f.summary)
      [] kind = "outline" -> generate_mindmap_outline(f.summary)

\* the request each generation statement makes, from the locals f
Request(kind, f) ==
    CASE kind = "summary" -> summarize_text(f.notes)
      [] kind = "mcqs"    -> generate_mcqs(f.summary)
      [] kind = "plan"    -> generate_study_plan(f.summary)
      [] kind = "outline" -> generate_mindmap_outline(f.summary)

\* the arguments of each render statement, from the locals f; the file name
\* is the default of the renderer's filename parameter
MindmapArgs(f) == [outline_text |-> f.outline, filename |-> "mindmap.png"]

\* variant: the flashcard file is named after the student
FlashcardsArgs_PerStudent(f) == [mcq_text |-> f.mcqs, filename |-> f.student_id]

FlashcardsArgs(f) == [mcq_text |-> f.mcqs, filename |-> "flashcards.pdf"]
PptxArgs(f) == [summary_text |-> f.summary, filename |-> "summary_slides.pptx"]

\* variant: notes_memory.setdefault(student_id, notes)
StoreNotes_KeepFirst(mem, sid, text) == mem @@ (sid :> text)

\* notes_memory[student_id] = notes
StoreNotes(mem, sid, text) == (sid :> text) @@ mem

\* open(filename, "w") and write: the file is replaced
WriteFile(fs, filename, content, i) ==
    (filename :> [content |-> content, writer |-> i]) @@ fs

\* control passes the statement stmt of invocation i
Advance(i, stmt) ==
    /\ pc' = [pc EXCEPT ![i] = After(stmt)]
    /\ trace' = [trace EXCEPT ![i] = Append(@, stmt)]

\* an exception leaves full_pipeline: the invocation returns nothing
Abort(i, stmt) ==
    /\ pc' = [pc EXCEPT ![i] = "aborted"]
    /\ trace' = [trace EXCEPT ![i] = Append(@, stmt)]

\* the UI calls full_pipeline(pdf_file, student_id)
Call(i, doc, sid) ==
    /\ pc' = [pc EXCEPT ![i] = Statements[1]]
    /\ frame' = [frame EXCEPT ![i] =
                    [NoFrame EXCEPT !.pdf_file = doc, !.student_id = sid]]
    /\ result' = [result EXCEPT ![i] = <<>>]
    /\ calls' = [calls EXCEPT ![i] = <<>>]
    /\ trace' = [trace EXCEPT ![i] = <<>>]
    /\ UNCHANGED <<fn_arg, fn_ret, api_key, notes_memory, files, put_log>>

\* notes = extract_text_from_pdf(pdf_file)
Extract(i) ==
    /\ pc[i] = "extract"
    /\ LET r == extract_text_from_pdf(frame[i].pdf_file) IN
       IF r.raised
       THEN Abort(i, "extract") /\ UNCHANGED frame
       ELSE /\ Advance(i, "extract")
            /\ frame' = [frame EXCEPT ![i].notes = r.value]
    /\ UNCHANGED <<fn_arg, fn_ret, api_key, notes_memory, files, result,
                   calls, put_log>>

\* notes_memory[student_id] = notes
Put(i) ==
    /\ pc[i] = "put"
    /\ notes_memory' =
           StoreNotes(notes_memory, frame[i].student_id, frame[i].notes)
    /\ put_log' = Append(put_log, [student_id |-> frame[i].student_id,
                                   pdf_file |-> frame[i].pdf_file,
                                   notes |-> frame[i].notes])
    /\ Advance(i, "put")
    /\ UNCHANGED <<fn_arg, fn_ret, api_key, files, frame, result, calls>>

\* <local> = groq_chat(<prompts of kind>), the provider answering outcome
Generate(i, kind, outcome) ==
    /\ pc[i] = kind
    /\ LET req == Request(kind, frame[i])
           r   == groq_chat(api_key, req.system, req.user, outcome)
       IN  /\ calls' = [calls EXCEPT ![i] = Append(@,
                          [kind |-> kind, system |-> req.system,
                           user |-> req.user,
                           sent |-> api_key,
                           ok |-> api_key /\ outcome.ok,
                           text |-> IF api_key THEN outcome.text ELSE <<>>])]
           /\ IF r.raised
              THEN Abort(i, kind) /\ UNCHANGED frame
              ELSE /\ Advance(i, kind)
                   /\ frame' = [frame EXCEPT ![i] =
                         CASE kind = "summary" -> [@ EXCEPT !.summary = r.value]
                           [] kind = "mcqs"    -> [@ EXCEPT !.mcqs = r.value]
                           [] kind = "plan"    -> [@ EXCEPT !.plan = r.value]
                           [] kind = "outline" -> [@ EXCEPT !.outline = r.value]]
    /\ UNCHANGED <<fn_arg, fn_ret, api_key, notes_memory, files, result,
                   put_log>>

\* summary = summarize_text(notes)
Summarize(i) == \E o \in ProviderOutcomes("summary") : Generate(i, "summary", o)

\* mcqs = generate_mcqs(summary)
GenerateMcqs(i) == \E o \in ProviderOutcomes("mcqs") : Generate(i, "mcqs", o)

\* plan = generate_study_plan(summary)
GeneratePlan(i) == \E o \in ProviderOutcomes("plan") : Generate(i, "plan", o)

\* outline = generate_mindmap_outline(summary)
GenerateOutline(i) ==
    \E o \in ProviderOutcomes("outline") : Generate(i, "outline", o)

\* mindmap_img = draw_mindmap_from_outline(outline)
DrawMindmap(i) ==
    /\ pc[i] = "mindmap"
    /\ LET a == MindmapArgs(frame[i]) IN
       /\ files' = WriteFile(files, a.filename, draw_mindmap_from_outline(a.outline_text), i)
       /\ frame' = [frame EXCEPT ![i].mindmap_img = a.filename]
    /\ Advance(i, "mindmap")
    /\ UNCHANGED <<fn_arg, fn_ret, api_key, notes_memory, result, calls,
                   put_log>>

\* flash_pdf = create_flashcards_pdf(mcqs)
CreateFlashcards(i) ==
    /\ pc[i] = "flash"
    /\ LET a == FlashcardsArgs(frame[i]) IN
       /\ files' = WriteFile(files, a.filename, create_flashcards_pdf(a.mcq_text), i)
       /\ frame' = [frame EXCEPT ![i].flash_pdf = a.filename]
    /\ Advance(i, "flash")
    /\ UNCHANGED <<fn_arg, fn_ret, api_key, notes_memory, result, calls,
                   put_log>>

\* pptx_file = summary_to_pptx(summary)
SummaryToPptx(i) ==
    /\ pc[i] = "pptx"
    /\ LET a == PptxArgs(frame[i]) IN
       /\ files' = WriteFile(files, a.filename, summary_to_pptx(a.summary_text), i)
       /\ frame' = [frame EXCEPT ![i].pptx_file = a.filename]
    /\ Advance(i, "pptx")
    /\ UNCHANGED <<fn_arg, fn_ret, api_key, notes_memory, result, calls,
                   put_log>>

\* return summary, mcqs, plan, outline, mindmap_img, flash_pdf, pptx_file
Return(i) ==
    /\ pc[i] = "return"
    /\ LET f == frame[i] IN
       result' = [result EXCEPT ![i] =
                    <<f.summary, f.mcqs, f.plan, f.outline, f.mindmap_img,
                      f.flash_pdf, f.pptx_file>>]
    /\ Advance(i, "return")
    /\ UNCHANGED <<fn_arg, fn_ret, api_key, notes_memory, files, frame,
                   calls, put_log>>

full_pipeline(i) ==
    \/ Extract(i)
    \/ Put(i)
    \/ Summarize(i)
    \/ GenerateMcqs(i)
    \/ GeneratePlan(i)
    \/ GenerateOutline(i)
    \/ DrawMindmap(i)
    \/ CreateFlashcards(i)
    \/ SummaryToPptx(i)
    \/ Return(i)

----------------------------------------------------------------------------
(* Specifications *)

NotCalled == [fn |-> "none", value |-> <<>>]

PipelineIdle ==
    /\ notes_memory = [s \in {} |-> <<>>]
    /\ files = [n \in {} |-> <<>>]
    /\ pc = [i \in Procs |-> "idle"]
    /\ frame = [i \in Procs |-> NoFrame]
    /\ result = [i \in Procs |-> <<>>]
    /\ calls = [i \in Procs |-> <<>>]
    /\ trace = [i \in Procs |-> <<>>]
    /\ put_log = <<>>

\* Spec: the UI serves one click at a time, each with any document and id.
Init ==
    /\ fn_arg = <<>>
    /\ fn_ret = NotCalled
    /\ api_key \in BOOLEAN
    /\ PipelineIdle

Click ==
    /\ pc[1] \in {"idle", "done", "aborted"}
    /\ Len(put_log) < MaxRuns
    /\ \E doc \in Documents, sid \in Students : Call(1, doc, sid)

Next == Click \/ full_pipeline(1)

Spec == Init /\ [][Next]_vars

\* SpecConc: two clicks, by two students with two documents, served by
\* two worker threads whose statements interleave.
ConcDoc(i) == IF i = 1 THEN Doc1 ELSE Doc2
ConcStudent(i) == IF i = 1 THEN "default" ELSE "s2"

ClickConc(i) ==
    /\ pc[i] = "idle"
    /\ Call(i, ConcDoc(i), ConcStudent(i))

NextConc == \E i \in Procs : ClickConc(i) \/ full_pipeline(i)

SpecConc == Init /\ [][NextConc]_vars

----------------------------------------------------------------------------
(* SpecSlides: summary_to_pptx applied to every bounded summary text.      *)
(* SpecMindmap: draw_mindmap_from_outline applied to every bounded outline.*)

SlideChars == {"a", "b", " ", "\n", "\r"}
OutlineChars == {"a", "b", " ", "\n", ":", ","}

TextsOver(chars, maxlen) == UNION {[1..n -> chars] : n \in 0..maxlen}

\* "\n".join(lines)
RECURSIVE JoinLines(_)
JoinLines(lines) ==
    IF lines = <<>> THEN <<>>
    ELSE IF Len(lines) = 1 THEN Head(lines)
    ELSE Head(lines) \o <<"\n">> \o JoinLines(Tail(lines))

\* texts of n lines, line k being the word k or a blank line
LineTexts(maxlines) ==
    UNION {{JoinLines([k \in 1..n |->
                          IF k \in blank THEN <<" ">> ELSE <<ToString(k)>>]) :
               blank \in SUBSET (1..n)} : n \in 0..maxlines}

InitSlides ==
    /\ fn_arg \in TextsOver(SlideChars, MaxSlideLen) \cup LineTexts(MaxSlideLines)
    /\ fn_ret = NotCalled
    /\ api_key = TRUE
    /\ PipelineIdle

CallSummaryToPptx ==
    /\ fn_ret.fn = "none"
    /\ fn_ret' = [fn |-> "summary_to_pptx", value |-> summary_to_pptx(fn_arg)]
    /\ UNCHANGED <<fn_arg, pipeVars>>

SpecSlides == InitSlides /\ [][CallSummaryToPptx]_vars

InitMindmap ==
    /\ fn_arg \in TextsOver(OutlineChars, MaxOutlineLen)
    /\ fn_ret = NotCalled
    /\ api_key = TRUE
    /\ PipelineIdle

CallDrawMindmap ==
    /\ fn_ret.fn = "none"
    /\ fn_ret' = [fn |-> "draw_mindmap_from_outline",
                  value |-> draw_mindmap_from_outline(fn_arg)]
    /\ UNCHANGED <<fn_arg, pipeVars>>

SpecMindmap == InitMindmap /\ [][CallDrawMindmap]_vars

----------------------------------------------------------------------------
(* Properties of summary_to_pptx *)

IsBlank(l) == \A k \in 1..Len(l) : l[k] \in Whitespace

\* the lines of the argument that are not blank, in order
NonBlankLines == SelectSeq(SplitLines(fn_arg), LAMBDA l : ~IsBlank(l))

RECURSIVE AllParas(_)
AllParas(slides) ==
    IF slides = <<>> THEN <<>>
    ELSE Head(slides).paras \o AllParas(Tail(slides))

\* C1: summary_to_pptx makes ceil(N/6) slides for N non-blank lines, each
\* with at most 6 bullets; the bullets of the slides in order are the
\* trimmed non-blank lines in order; no bullet is blank; N = 0 gives no slide.
C1_SlideCount ==
    fn_ret.fn = "summary_to_pptx" =>
        LET slides == fn_ret.value
            N      == Len(NonBlankLines)
        IN  /\ Len(slides) = (N + 5) \div 6
            /\ \A k \in 1..Len(slides) : Len(slides[k].paras) <= 6
            /\ AllParas(slides) = [k \in 1..N |-> Strip(NonBlankLines[k])]
            /\ \A k \in 1..Len(slides) :
                 \A b \in 1..Len(slides[k].paras) : ~IsBlank(slides[k].paras[b])
            /\ (N = 0 => slides = <<>>)

\* 13 non-blank lines and a blank one: slides of 6, 6 and 1 bullets
C1_Witness ==
    /\ fn_ret.fn = "summary_to_pptx"
    /\ Len(NonBlankLines) = 13
    /\ Len(SplitLines(fn_arg)) = 14
    /\ Len(fn_ret.value) = 3
    /\ Len(fn_ret.value[1].paras) = 6
    /\ Len(fn_ret.value[2].paras) = 6
    /\ Len(fn_ret.value[3].paras) = 1

----------------------------------------------------------------------------
(* Properties of draw_mindmap_from_outline *)

OutlineLines == SplitLines(fn_arg)

TrimmedLine(k) == Strip(OutlineLines[k])

HasColon(k) == Contains(TrimmedLine(k), ":")

\* of the line `parent: c1, ..., ck`: the parent and the tokens, trimmed
ParentOf(k) == Strip(SplitOnce(TrimmedLine(k), ":")[1])

TokensOf(k) ==
    LET toks == Split(SplitOnce(TrimmedLine(k), ":")[2], ",") IN
    {Strip(toks[n]) : n \in 1..Len(toks)}

ChildrenOf(k) == TokensOf(k) \ {<<>>}

\* the edges the line k calls for
EdgesOf(k) ==
    IF HasColon(k)
    THEN {{root, ParentOf(k)}} \cup {{ParentOf(k), c} : c \in ChildrenOf(k)}
    ELSE {{root, TrimmedLine(k)}}

LabelsOf(k) ==
    IF HasColon(k) THEN {ParentOf(k)} \cup ChildrenOf(k) ELSE {TrimmedLine(k)}

\* C2: a line `parent: c1, ..., ck` gives the edge root-parent, also when no
\* token survives, and parent-ci for every trimmed non-empty token; empty
\* tokens give no edge (every edge is called for by some line); one node per
\* label, so the children of all lines with one parent hang on one node.
C2_ParentEdges ==
    fn_ret.fn = "draw_mindmap_from_outline" =>
        LET G == fn_ret.value IN
        /\ \A k \in 1..Len(OutlineLines) : HasColon(k) =>
              /\ {root, ParentOf(k)} \in G.edges
              /\ \A c \in ChildrenOf(k) : {ParentOf(k), c} \in G.edges
        /\ \A e \in G.edges : \E k \in 1..Len(OutlineLines) : e \in EdgesOf(k)
        /\ G.nodes = {root} \cup UNION {LabelsOf(k) : k \in 1..Len(OutlineLines)}

\* one parent on two lines: a child on the first, only an empty token on
\* the second
C2_Witness ==
    /\ fn_ret.fn = "draw_mindmap_from_outline"
    /\ Len(OutlineLines) = 2
    /\ HasColon(1) /\ HasColon(2)
    /\ ParentOf(1) = ParentOf(2)
    /\ ParentOf(1) # <<>>
    /\ ChildrenOf(1) # {}
    /\ TokensOf(2) = {<<>>}
    /\ {root, ParentOf(1)} \in fn_ret.value.edges
    /\ Cardinality(fn_ret.value.edges) = 2

NoColon == \A k \in 1..Len(OutlineLines) : ~HasColon(k)

NoBlankLine == \A k \in 1..Len(OutlineLines) : ~IsBlank(OutlineLines[k])

\* C3 as stated: without `:` in any line the graph has exactly one edge per
\* line and every edge is incident to the root (taken on the outlines that
\* have no blank line, where it fails already).
C3_OneEdgePerLine ==
    (fn_ret.fn = "draw_mindmap_from_outline" /\ NoColon /\ NoBlankLine) =>
        /\ Cardinality(fn_ret.value.edges) = Len(OutlineLines)
        /\ \A e \in fn_ret.value.edges : root \in e

\* C3 amended: without `:` in any line the graph has exactly one edge per
\* distinct trimmed line, joining the root and that line.
C3_OneEdgePerDistinctLine ==
    (fn_ret.fn = "draw_mindmap_from_outline" /\ NoColon) =>
        LET distinct == {TrimmedLine(k) : k \in 1..Len(OutlineLines)} IN
        /\ fn_ret.value.edges = {{root, l} : l \in distinct}
        /\ Cardinality(fn_ret.value.edges) = Cardinality(distinct)
        /\ \A e \in fn_ret.value.edges : root \in e

\* three lines, two of them equal after trimming only: two edges
C3_Witness ==
    /\ fn_ret.fn = "draw_mindmap_from_outline"
    /\ NoColon
    /\ Len(OutlineLines) = 3
    /\ OutlineLines[1] # OutlineLines[2]
    /\ TrimmedLine(1) = TrimmedLine(2)
    /\ TrimmedLine(1) # <<>>
    /\ TrimmedLine(3) \notin {<<>>, TrimmedLine(1)}
    /\ Cardinality(fn_ret.value.edges) = 2

\* C9 as stated: blank lines add no node and no edge, so the graph is the
\* graph of the non-blank lines, and the single node root without edges
\* when every line is blank.
C9_BlankLinesIgnored ==
    fn_ret.fn = "draw_mindmap_from_outline" =>
        LET G == fn_ret.value
            nonblank == {k \in 1..Len(OutlineLines) : ~IsBlank(OutlineLines[k])}
        IN  /\ G.nodes = {root} \cup UNION {LabelsOf(k) : k \in nonblank}
            /\ G.edges = UNION {EdgesOf(k) : k \in nonblank}
            /\ (nonblank = {} => G = [nodes |-> {root}, edges |-> {}])

----------------------------------------------------------------------------
(* Properties of full_pipeline, one click at a time (Spec) *)

Finished(i) == pc[i] = "done"

Executed(i, stmt) == \E k \in 1..Len(trace[i]) : trace[i][k] = stmt

PutsOf(u) == SelectSeq(put_log, LAMBDA e : e.student_id = u)

\* C4: notes_memory holds one text per student id that has run the
\* pipeline: the text extracted from the document of the latest run for
\* that id; ids that never ran have no entry.
C4_LatestNotesOnly ==
    /\ DOMAIN notes_memory \subseteq Students
    /\ \A u \in Students :
         LET puts == PutsOf(u) IN
         IF puts = <<>> THEN u \notin DOMAIN notes_memory
         ELSE /\ u \in DOMAIN notes_memory
              /\ notes_memory[u] =
                   extract_text_from_pdf(puts[Len(puts)].pdf_file).value

\* two finished runs for one student with documents of different text
C4_Witness ==
    /\ Finished(1)
    /\ Len(put_log) = 2
    /\ put_log[1].student_id = put_log[2].student_id
    /\ put_log[1].pdf_file.kind = "pdf"
    /\ put_log[2].pdf_file.kind = "pdf"
    /\ put_log[1].notes # put_log[2].notes
    /\ notes_memory[put_log[2].student_id] = put_log[2].notes
    /\ DOMAIN notes_memory = {put_log[2].student_id}

\* what groq_chat hands back for the logged call c
Degraded(c) ==
    IF ~c.sent THEN KeyNotSet
    ELSE IF ~c.ok THEN LLMError(c.text)
    ELSE c.text

Kinds == <<"summary", "mcqs", "plan", "outline">>

\* C5: whichever generation calls fail, full_pipeline does not raise and
\* returns seven populated slots: the slot of a failed call holds its error
\* or key-not-set text, the slot of a successful call the generated text.
C5_AllSlotsReturned ==
    \A i \in Procs :
      /\ pc[i] # "aborted"
      /\ Finished(i) =>
           /\ Len(result[i]) = 7
           /\ Len(calls[i]) = 4
           /\ \A k \in 1..4 :
                /\ calls[i][k].kind = Kinds[k]
                /\ result[i][k] = Degraded(calls[i][k])
                /\ result[i][k] \notin {Unset, <<>>}
           /\ \A k \in 5..7 : result[i][k] \in DOMAIN files

\* summary and questions generated, the plan failed, the outline generated
C5_Witness ==
    /\ Finished(1)
    /\ calls[1][1].ok /\ calls[1][2].ok /\ ~calls[1][3].ok /\ calls[1][4].ok
    /\ calls[1][3].sent
    /\ result[1][1] = calls[1][1].text
    /\ result[1][2] = calls[1][2].text
    /\ result[1][3] = LLMError(calls[1][3].text)
    /\ result[1][4] = calls[1][4].text

\* C6 as stated: a run aborts if and only if the document object is
\* missing or invalid.
C6_AbortsIffNoDocument ==
    \A i \in Procs :
      /\ Finished(i) => frame[i].pdf_file.kind # "none"
      /\ pc[i] = "aborted" => frame[i].pdf_file.kind = "none"

\* C6 amended: no document aborts a run: a missing object (None), like a
\* corrupt document, becomes the notes text "Error extracting PDF: ..." and
\* the run goes on to return its bundle; no generation failure aborts it.
C6_NoDocumentAborts ==
    \A i \in Procs :
      /\ pc[i] # "aborted"
      /\ (Executed(i, "extract") /\ frame[i].pdf_file.kind # "pdf") =>
           frame[i].notes = ExtractError(ReaderMessage(frame[i].pdf_file))
      /\ Finished(i) => Len(result[i]) = 7

\* a run on None that returned its bundle although every call failed
C6_Witness ==
    /\ Finished(1)
    /\ frame[1].pdf_file = DocNone
    /\ Len(result[1]) = 7
    /\ api_key
    /\ \A k \in 1..4 : ~calls[1][k].ok

IsPrefix(s, t) == Len(s) <= Len(t) /\ s = SubSeq(t, 1, Len(s))

EndsWith(s, t) == Len(t) <= Len(s) /\ SubSeq(s, Len(s) - Len(t) + 1, Len(s)) = t

\* C8: the statements of one invocation run in the order extract, put,
\* summary, questions, plan, outline, graph, flashcards, slides; each has
\* produced its output before the next begins; the notes are stored before
\* the first generation call; questions, plan and outline are requested
\* from the summary; graph, flashcards and slides are rendered from the
\* outline, the questions and the summary.
C8_StrictOrder ==
    \A i \in Procs :
      LET f == frame[i]
          order == <<"extract", "put", "summary", "mcqs", "plan", "outline",
                     "mindmap", "flash", "pptx", "return">>
          local == [extract |-> f.notes, summary |-> f.summary,
                    mcqs |-> f.mcqs, plan |-> f.plan, outline |-> f.outline]
          body(k) == SubSeq(calls[i][k].user,
                            Find(calls[i][k].user, {"\n"}) + 1,
                            Len(calls[i][k].user))
      IN  /\ IsPrefix(trace[i], order)
          /\ pc[i] \notin {"idle", "done", "aborted"} =>
               pc[i] = order[Len(trace[i]) + 1]
          /\ \A stmt \in DOMAIN local :
               Executed(i, stmt) <=> (local[stmt] # Unset)
          /\ calls[i] # <<>> =>
               /\ Executed(i, "put")
               /\ f.student_id \in DOMAIN notes_memory
               /\ notes_memory[f.student_id] = f.notes
          /\ Len(calls[i]) = Cardinality({k \in 1..4 : Executed(i, Kinds[k])})
          /\ \A k \in 1..Len(calls[i]) :
               /\ calls[i][k].kind = Kinds[k]
               /\ body(k) = IF k = 1 THEN f.notes ELSE f.summary
          /\ Executed(i, "mindmap") =>
               /\ f.mindmap_img \in DOMAIN files
               /\ files[f.mindmap_img].content = draw_mindmap_from_outline(f.outline)
          /\ Executed(i, "flash") =>
               /\ f.flash_pdf \in DOMAIN files
               /\ files[f.flash_pdf].content = SplitLines(f.mcqs)
          /\ Executed(i, "pptx") =>
               /\ f.pptx_file \in DOMAIN files
               /\ files[f.pptx_file].content = summary_to_pptx(f.summary)

\* a finished run on a readable document whose notes, summary, questions
\* and outline are four different generated texts
C8_Witness ==
    /\ Finished(1)
    /\ Len(trace[1]) = 10
    /\ frame[1].pdf_file.kind = "pdf"
    /\ \A k \in 1..4 : calls[1][k].ok
    /\ Cardinality({frame[1].notes, frame[1].summary, frame[1].mcqs,
                    frame[1].outline}) = 4
    /\ Len(files[frame[1].pptx_file].content) > 0

\* C10: the error text of a failed summary call is the payload of the
\* questions, plan and outline calls and the only bullet of the slide deck;
\* the error text of a failed questions call is the flashcard document; the
\* error text of a failed outline call is parsed into the graph, `LLM Error`
\* becoming a parent node with the message as its child.
C10_ErrorTextFlowsOn ==
    \A i \in Procs :
      LET c == calls[i]
          llm == <<"LLM", " ", "Error">>
      IN  /\ (Len(c) >= 1 /\ ~c[1].ok) =>
               /\ frame[i].summary = Degraded(c[1])
               /\ \A k \in 2..Len(c) : EndsWith(c[k].user, <<"\n">> \o Degraded(c[1]))
               /\ Executed(i, "pptx") =>
                    files["summary_slides.pptx"].content =
                        <<[title |-> "Summary", paras |-> <<Degraded(c[1])>>]>>
          /\ (Len(c) >= 2 /\ ~c[2].ok /\ Executed(i, "flash")) =>
               files["flashcards.pdf"].content = <<Degraded(c[2])>>
          /\ (Len(c) >= 4 /\ ~c[4].ok /\ Executed(i, "mindmap")) =>
               files["mindmap.png"].content.edges =
                   IF c[4].sent
                   THEN {{root, llm}, {llm, c[4].text}}
                   ELSE {{root, KeyNotSet}}

\* a finished run whose summary, questions and outline calls all failed at
\* the provider
C10_Witness ==
    /\ Finished(1)
    /\ api_key
    /\ ~calls[1][1].ok /\ ~calls[1][2].ok /\ ~calls[1][4].ok
    /\ EndsWith(calls[1][2].user, LLMError(calls[1][1].text))
    /\ Len(files["summary_slides.pptx"].content) = 1
    /\ {<<"LLM", " ", "Error">>, calls[1][4].text}
           \in files["mindmap.png"].content.edges

----------------------------------------------------------------------------
(* Properties of overlapping invocations (SpecConc) *)

FixedNames == {"mindmap.png", "flashcards.pdf", "summary_slides.pptx"}

\* what invocation i renders into the file n
Rendering(n, i) ==
    CASE n = "mindmap.png"         -> draw_mindmap_from_outline(frame[i].outline)
      [] n = "flashcards.pdf"      -> SplitLines(frame[i].mcqs)
      [] n = "summary_slides.pptx" -> summary_to_pptx(frame[i].summary)

\* C7: every invocation writes and returns the same three file names, and a
\* file holds what its last writer rendered; so an invocation that is not
\* the last writer of a name it returns holds the other invocation's
\* content under that name.
C7_SharedFileNames ==
    /\ DOMAIN files \subseteq FixedNames
    /\ \A n \in DOMAIN files :
         files[n].content = Rendering(n, files[n].writer)
    /\ \A i \in Procs : Finished(i) =>
         /\ {result[i][5], result[i][6], result[i][7]} = FixedNames
         /\ FixedNames \subseteq DOMAIN files

\* an invocation has returned the three names, and each of them holds what
\* the other invocation rendered from its own, different, generated texts
C7_Witness ==
    \E i \in Procs : \E j \in Procs \ {i} :
      /\ Finished(i)
      /\ frame[i].pdf_file # frame[j].pdf_file
      /\ frame[i].student_id # frame[j].student_id
      /\ Len(calls[j]) = 4
      /\ \A k \in 1..4 : calls[i][k].ok /\ calls[j][k].ok
      /\ \A n \in {result[i][5], result[i][6], result[i][7]} :
           /\ files[n].writer = j
           /\ files[n].content = Rendering(n, j)
           /\ files[n].content # Rendering(n, i)

====
